---------------------------- MODULE Spec2Model ----------------------------
(***************************************************************************)
(* The weighted keyword prompt index (package tirekwp): a radix tree whose *)
(* nodes each carry an ordered map of the best maxSortedLen keywords of    *)
(* their subtree.                                                          *)
(*                                                                         *)
(* Strings are sequences of bytes; Put and Get navigate by the code points *)
(* that Go's []rune conversion decodes from them, while cmp and the        *)
(* duplicate test of Put look at the bytes.  A node pointer is modelled by *)
(* the path of code points under which the node was linked, the heap by    *)
(* the function nodes from pointers to node records.  The ordered map of a *)
(* node is modelled by the ascending sequence of its keys.                 *)
(*                                                                         *)
(* The red-black tree (package rbtree) is modelled on its own, node by     *)
(* node, with its sentinel: the runs of SpecRb make Put, Delete, PopMin    *)
(* and PopMax calls on one tree of integer keys, next to the map those     *)
(* calls describe.  The queries of the tree change nothing and are         *)
(* operators of the tree, evaluated in every state the calls reach.        *)
(*                                                                         *)
(* Further runs: SpecTopK applies node.adjustSorted to one top-K set kept  *)
(* as a tree ordered by cmp; SpecCmp calls cmp on keywords whose weights   *)
(* range over every machine integer; SpecOrder puts pairwise distinct      *)
(* strings into a new index; SpecShared makes calls on two trees that      *)
(* share the sentinel of the package, next to two trees that do not.       *)
(***************************************************************************)
EXTENDS Integers, Sequences, FiniteSets, TLC

\* ------------------------------------------------------------------ bounds
MaxLen == 3
MaxBadLen == 2
MaxWeight == 2
MaxM == 2
MaxPuts == 3
MaxSnapLen == 2
\* The width of the machine integer the model computes weights in.
WordBits == 6
\* The keys and the values of the red-black trees.
MaxRbKey == 6
MaxRbValue == 2
MaxTopK == 3
\* The keys and the values of the two trees that share a sentinel.
MaxShKey == 4
MaxShValue == 1

\* utf8.RuneError, the code point []rune yields for every byte that is not
\* part of a valid encoding.
RuneError == 65533

\* F applied to the value of v, with v evaluated once.
Bind(v, F(_)) == CHOOSE r \in {F(x) : x \in {v}} : TRUE

\* --------------------------------------------------------- strings, runes
\* The pieces the input strings are made of: "a", the valid encoding of
\* U+FFFD (EF BF BD) and the lone continuation byte BF, which is no valid
\* encoding of anything.
ValidChunks == {<<97>>, <<239, 191, 189>>}
Chunks == ValidChunks \cup {<<191>>}

RECURSIVE Concat(_)
Concat(cs) == IF cs = <<>> THEN <<>> ELSE Head(cs) \o Concat(Tail(cs))

StrsOver(chunks, n) ==
    {Concat(cs) : cs \in UNION {[1..k -> chunks] : k \in 1..n}}

\* The strings that are valid UTF-8.
ValidStrs == StrsOver(ValidChunks, MaxLen)

\* The non-empty input strings: the valid ones of up to MaxLen pieces and
\* all of up to MaxBadLen pieces.
Strs == ValidStrs \cup StrsOver(Chunks, MaxBadLen)

Weights == 1..MaxWeight

IsCont(b) == b >= 128 /\ b <= 191

\* The width in bytes of the encoding that starts at s[1], 1 with the rune
\* RuneError when the bytes there are not a valid encoding.
DecodeFirst(s) ==
    LET b0 == s[1]
        n  == Len(s)
        bad == [rune |-> RuneError, width |-> 1]
    IN  IF b0 < 128 THEN [rune |-> b0, width |-> 1]
        ELSE IF b0 >= 194 /\ b0 <= 223
        THEN IF n >= 2 /\ IsCont(s[2])
             THEN [rune |-> (b0 - 192) * 64 + (s[2] - 128), width |-> 2]
             ELSE bad
        ELSE IF b0 >= 224 /\ b0 <= 239
        THEN IF /\ n >= 3
                /\ IsCont(s[2]) /\ IsCont(s[3])
                /\ (b0 = 224 => s[2] >= 160)
                /\ (b0 = 237 => s[2] <= 159)
             THEN [rune |-> (b0 - 224) * 4096 + (s[2] - 128) * 64 + (s[3] - 128),
                   width |-> 3]
             ELSE bad
        ELSE IF b0 >= 240 /\ b0 <= 244
        THEN IF /\ n >= 4
                /\ IsCont(s[2]) /\ IsCont(s[3]) /\ IsCont(s[4])
                /\ (b0 = 240 => s[2] >= 144)
                /\ (b0 = 244 => s[2] <= 143)
             THEN [rune |-> (b0 - 240) * 262144 + (s[2] - 128) * 4096
                              + (s[3] - 128) * 64 + (s[4] - 128),
                   width |-> 4]
             ELSE bad
        ELSE bad

\* []rune(str)
RECURSIVE Runes(_)
Runes(s) ==
    IF s = <<>> THEN <<>>
    ELSE LET d == DecodeFirst(s)
         IN  <<d.rune>> \o Runes(SubSeq(s, d.width + 1, Len(s)))

\* strings.Compare: byte-wise lexicographic order, -1, 0 or 1.
RECURSIVE Compare(_, _)
Compare(a, b) ==
    IF a = <<>> /\ b = <<>> THEN 0
    ELSE IF a = <<>> THEN -1
    ELSE IF b = <<>> THEN 1
    ELSE IF Head(a) < Head(b) THEN -1
    ELSE IF Head(a) > Head(b) THEN 1
    ELSE Compare(Tail(a), Tail(b))

IsPrefix(p, s) == Len(p) <= Len(s) /\ SubSeq(s, 1, Len(p)) = p

\* --------------------------------------------------------------- keywords
\* The nil *Keyword.
NilKey == [Weight |-> 0, Str |-> <<>>, str |-> <<>>]

Keyword(s, w) == [Weight |-> w, Str |-> s, str |-> Runes(s)]

\* Two's complement wrap-around of a machine integer of WordBits bits.
WrapInt(x) == ((x + 2 ^ (WordBits - 1)) % (2 ^ WordBits)) - 2 ^ (WordBits - 1)

\* cmp with the weights subtracted the other way round.
cmpWeightAsc(k1, k2) ==
    LET c == Compare(k1.Str, k2.Str)
    IN  IF c = 0 THEN 0
        ELSE IF k1.Weight # k2.Weight THEN WrapInt(k1.Weight - k2.Weight)
        ELSE c

cmp(k1, k2) ==
    LET c == Compare(k1.Str, k2.Str)
    IN  IF c = 0 THEN 0
        ELSE IF k1.Weight # k2.Weight THEN WrapInt(k2.Weight - k1.Weight)
        ELSE c

\* ------------------------------------------------- the ordered map sorted
\* rbTree.Put(key, nil) seen on the ascending key sequence of the map: a key
\* that compares equal to a stored one only replaces the value (always nil
\* here), any other key enters at its place in the order.
sortedPut(s, key) ==
    IF \E i \in 1..Len(s) : cmp(s[i], key) = 0 THEN s
    ELSE LET below == Cardinality({i \in 1..Len(s) : cmp(s[i], key) < 0})
         IN  SubSeq(s, 1, below) \o <<key>> \o SubSeq(s, below + 1, Len(s))

\* rbTree.PopMax: deletes the node of the largest key (nothing when empty).
PopMax(s) == IF s = <<>> THEN s ELSE SubSeq(s, 1, Len(s) - 1)

\* adjustSorted evicting one element too late.
adjustSortedLate(s, key, maxLen) ==
    LET s1 == sortedPut(s, key)
    IN  IF Len(s1) > maxLen + 1 THEN PopMax(s1) ELSE s1

\* node.adjustSorted
adjustSorted(s, key, maxLen) ==
    LET s1 == sortedPut(s, key)
    IN  IF Len(s1) > maxLen THEN PopMax(s1) ELSE s1

\* ------------------------------------------------------------------ nodes
\* The pointer to the root node; the node linked under rune r of the node
\* at pointer p has pointer Append(p, r).
Root == <<>>

\* The empty map[rune]*node.
NoNext == <<>>

\* newNode that drops the keyword it is given.
newNodeEmpty(key) == [key |-> NilKey, next |-> NoNext, sorted |-> <<>>]

newNode(key) ==
    [key    |-> key,
     next   |-> NoNext,
     sorted |-> IF key # NilKey THEN sortedPut(<<>>, key) ELSE <<>>]

\* m[r] = p on a map[rune]*node
MapPut(m, r, p) == [x \in (DOMAIN m) \cup {r} |-> IF x = r THEN p ELSE m[x]]

\* The part of a TireKWP that put() works on, with the flag of a run-time
\* panic (index out of range, nil dereference) that ended it.
TireState(ns, cnt, pn) == [nodes |-> ns, nNodes |-> cnt, panic |-> pn]

Panic(st) == [st EXCEPT !.panic = TRUE]

\* Link without the increment of nNodes.
LinkNoCount(st, now, r, key) ==
    [st EXCEPT !.nodes  = (Append(now, r) :> newNode(key)) @@
                          [@ EXCEPT ![now].next = MapPut(@, r, Append(now, r))]]

\* now.next[r] = newNode(key); t.nNodes++
Link(st, now, r, key) ==
    [st EXCEPT !.nodes  = (Append(now, r) :> newNode(key)) @@
                          [@ EXCEPT ![now].next = MapPut(@, r, Append(now, r))],
               !.nNodes = @ + 1]

\* now.key = key
SetKey(st, now, key) == [st EXCEPT !.nodes[now].key = key]

\* adjustSorted on every node of the tree instead of on now.
AdjustAll(st, now, key, maxLen) ==
    [st EXCEPT !.nodes =
        [p \in DOMAIN @ |-> [@[p] EXCEPT !.sorted = adjustSorted(@, key, maxLen)]]]

\* now.adjustSorted(key, t.maxSortedLen)
AdjustAt(st, now, key, maxLen) ==
    [st EXCEPT !.nodes[now].sorted = adjustSorted(@, key, maxLen)]

\* ------------------------------------------------------------ the descent
\* The result of get(): a node pointer, nil, or a run-time panic.
Found(n) == [res |-> "node", n |-> n]
NotFound == [res |-> "nil", n |-> Root]
GetPanic == [res |-> "panic", n |-> Root]

\* The closing test of get() (lines 214-223): the key of now, when it has
\* one, is compared with str rune by rune; an index beyond the key panics.
getCheck(ns, now, str) ==
    LET k == ns[now].key
    IN  IF k = NilKey THEN Found(now)
        ELSE LET bad == {i \in 1..Len(str) : i > Len(k.str) \/ str[i] # k.str[i]}
             IN  IF bad = {} THEN Found(now)
                 ELSE LET i == CHOOSE j \in bad : \A l \in bad : j <= l
                      IN  IF i > Len(k.str) THEN GetPanic ELSE NotFound

RECURSIVE getLoop(_, _, _, _)

\* getStep without the length test of line 197.
getStepNoLen(ns, now, pos, str) ==
    IF pos >= Len(str) THEN getCheck(ns, now, str)
    ELSE IF DOMAIN ns[now].next = {}
    THEN IF ns[now].key # NilKey THEN getCheck(ns, now, str) ELSE NotFound
    ELSE IF str[pos + 1] \in DOMAIN ns[now].next
    THEN getLoop(ns, ns[now].next[str[pos + 1]], pos + 1, str)
    ELSE NotFound

\* One round of the loop of get() (lines 195-212) at node now; pos counts
\* the runes consumed.
getStep(ns, now, pos, str) ==
    IF pos >= Len(str) THEN getCheck(ns, now, str)
    ELSE IF DOMAIN ns[now].next = {}
    THEN LET k == ns[now].key
         IN  IF k # NilKey /\ Len(k.str) >= Len(str)
             THEN IF \E i \in (pos + 1)..Len(str) : str[i] # k.str[i]
                  THEN NotFound
                  ELSE getCheck(ns, now, str)
             ELSE NotFound
    ELSE IF str[pos + 1] \in DOMAIN ns[now].next
    THEN getLoop(ns, ns[now].next[str[pos + 1]], pos + 1, str)
    ELSE NotFound

getLoop(ns, now, pos, str) ==
    Bind(<<ns, now, str>>, LAMBDA a : getStep(a[1], a[2], pos, a[3]))

get(ns, str) == getLoop(ns, Root, 0, str)

\* -------------------------------------------------------------- insertion
\* The loop of Case 2 (lines 101-110): one chain node per rune that key and
\* k2 share from pos on.  Yields the state, the node and the position the
\* loop ends with.
RECURSIVE chainLoop(_, _, _, _, _, _)
\* chainStep without now.key = nil: the node keeps k2 above the chain.
chainStepKeepKey(st, now, pos, key, k2, maxLen) ==
    IF pos < Len(key.str) /\ pos < Len(k2.str) /\ key.str[pos + 1] = k2.str[pos + 1]
    THEN LET s1 == Link(st, now, key.str[pos + 1], NilKey)
             s2 == AdjustAt(s1, now, key, maxLen)
             s3 == AdjustAt(s2, now, k2, maxLen)
         IN  chainLoop(s3, Append(now, key.str[pos + 1]), pos + 1, key, k2, maxLen)
    ELSE [st |-> st, now |-> now, pos |-> pos]

chainStep(st, now, pos, key, k2, maxLen) ==
    IF pos < Len(key.str) /\ pos < Len(k2.str) /\ key.str[pos + 1] = k2.str[pos + 1]
    THEN LET s1 == Link(st, now, key.str[pos + 1], NilKey)
             s2 == AdjustAt(s1, now, key, maxLen)
             s3 == AdjustAt(s2, now, k2, maxLen)
             s4 == SetKey(s3, now, NilKey)
         IN  chainLoop(s4, Append(now, key.str[pos + 1]), pos + 1, key, k2, maxLen)
    ELSE [st |-> st, now |-> now, pos |-> pos]

chainLoop(st, now, pos, key, k2, maxLen) ==
    Bind(<<st, now>>, LAMBDA a : chainStep(a[1], a[2], pos, key, k2, maxLen))

\* split whose case 2.2 clears the key of now and so loses k2.
splitDropK2(st, now, pos, key, k2, maxLen) ==
    IF pos = Len(key.str)
    THEN LET s1 == AdjustAt(SetKey(st, now, key), now, key, maxLen)
         IN  IF pos >= Len(k2.str) THEN Panic(s1)
             ELSE AdjustAt(Link(s1, now, k2.str[pos + 1], k2), now, k2, maxLen)
    ELSE IF pos = Len(k2.str)
    THEN LET s1 == AdjustAt(SetKey(st, now, NilKey), now, k2, maxLen)
         IN  AdjustAt(Link(s1, now, key.str[pos + 1], key), now, key, maxLen)
    ELSE LET s1 == SetKey(st, now, NilKey)
             s2 == AdjustAt(AdjustAt(s1, now, key, maxLen), now, k2, maxLen)
             s3 == AdjustAt(Link(s2, now, key.str[pos + 1], key), now, key, maxLen)
         IN  AdjustAt(Link(s3, now, k2.str[pos + 1], k2), now, k2, maxLen)

\* split whose case 2.2 hangs k2 below now and keeps key at now.
splitSwapped(st, now, pos, key, k2, maxLen) ==
    IF pos = Len(key.str)
    THEN LET s1 == AdjustAt(SetKey(st, now, key), now, key, maxLen)
         IN  IF pos >= Len(k2.str) THEN Panic(s1)
             ELSE AdjustAt(Link(s1, now, k2.str[pos + 1], k2), now, k2, maxLen)
    ELSE IF pos = Len(k2.str)
    THEN LET s1 == AdjustAt(SetKey(st, now, key), now, k2, maxLen)
         IN  AdjustAt(Link(s1, now, key.str[pos + 1], k2), now, key, maxLen)
    ELSE LET s1 == SetKey(st, now, NilKey)
             s2 == AdjustAt(AdjustAt(s1, now, key, maxLen), now, k2, maxLen)
             s3 == AdjustAt(Link(s2, now, key.str[pos + 1], key), now, key, maxLen)
         IN  AdjustAt(Link(s3, now, k2.str[pos + 1], k2), now, k2, maxLen)

\* Cases 2.1 - 2.3 (lines 111-136)
split(st, now, pos, key, k2, maxLen) ==
    IF pos = Len(key.str)
    THEN LET s1 == AdjustAt(SetKey(st, now, key), now, key, maxLen)
         IN  IF pos >= Len(k2.str) THEN Panic(s1)
             ELSE AdjustAt(Link(s1, now, k2.str[pos + 1], k2), now, k2, maxLen)
    ELSE IF pos = Len(k2.str)
    THEN LET s1 == AdjustAt(SetKey(st, now, k2), now, k2, maxLen)
         IN  AdjustAt(Link(s1, now, key.str[pos + 1], key), now, key, maxLen)
    ELSE LET s1 == SetKey(st, now, NilKey)
             s2 == AdjustAt(AdjustAt(s1, now, key, maxLen), now, k2, maxLen)
             s3 == AdjustAt(Link(s2, now, key.str[pos + 1], key), now, key, maxLen)
         IN  AdjustAt(Link(s3, now, k2.str[pos + 1], k2), now, k2, maxLen)

RECURSIVE putLoop(_, _, _, _, _)
\* putStep that leaves the keyword at every keyless node it passes.
putStepKeyOnPath(st, now, pos, key, maxLen) ==
    LET n == st.nodes[now]
    IN  IF pos = Len(key.str)
        THEN IF n.key # NilKey
             THEN IF pos >= Len(n.key.str) THEN Panic(st)
                  ELSE LET s1 == Link(st, now, n.key.str[pos + 1], n.key)
                       IN  AdjustAt(SetKey(s1, now, key), now, key, maxLen)
             ELSE AdjustAt(SetKey(st, now, key), now, key, maxLen)
        ELSE IF DOMAIN n.next = {}
        THEN IF n.key = NilKey THEN Panic(st)
             ELSE Bind(chainLoop(st, now, pos, key, n.key, maxLen),
                       LAMBDA c : split(c.st, c.now, c.pos, key, n.key, maxLen))
        ELSE IF key.str[pos + 1] \notin DOMAIN n.next
        THEN AdjustAt(Link(st, now, key.str[pos + 1], key), now, key, maxLen)
        ELSE putLoop(AdjustAt(IF n.key = NilKey THEN SetKey(st, now, key) ELSE st,
                              now, key, maxLen),
                     n.next[key.str[pos + 1]], pos + 1, key, maxLen)

\* putStep whose Case 1 stores the keyword without Case 1.1.
putStepNoPush(st, now, pos, key, maxLen) ==
    LET n == st.nodes[now]
    IN  IF pos = Len(key.str)
        THEN AdjustAt(SetKey(st, now, key), now, key, maxLen)
        ELSE IF DOMAIN n.next = {}
        THEN IF n.key = NilKey THEN Panic(st)
             ELSE Bind(chainLoop(st, now, pos, key, n.key, maxLen),
                       LAMBDA c : split(c.st, c.now, c.pos, key, n.key, maxLen))
        ELSE IF key.str[pos + 1] \notin DOMAIN n.next
        THEN AdjustAt(Link(st, now, key.str[pos + 1], key), now, key, maxLen)
        ELSE putLoop(AdjustAt(st, now, key, maxLen), n.next[key.str[pos + 1]],
                     pos + 1, key, maxLen)

\* putStep without now.adjustSorted(key, t.maxSortedLen) on the way down.
putStepNoAdjust(st, now, pos, key, maxLen) ==
    LET n == st.nodes[now]
    IN  IF pos = Len(key.str)
        THEN IF n.key # NilKey
             THEN IF pos >= Len(n.key.str) THEN Panic(st)
                  ELSE LET s1 == Link(st, now, n.key.str[pos + 1], n.key)
                       IN  AdjustAt(SetKey(s1, now, key), now, key, maxLen)
             ELSE AdjustAt(SetKey(st, now, key), now, key, maxLen)
        ELSE IF DOMAIN n.next = {}
        THEN IF n.key = NilKey THEN Panic(st)
             ELSE Bind(chainLoop(st, now, pos, key, n.key, maxLen),
                       LAMBDA c : split(c.st, c.now, c.pos, key, n.key, maxLen))
        ELSE IF key.str[pos + 1] \notin DOMAIN n.next
        THEN AdjustAt(Link(st, now, key.str[pos + 1], key), now, key, maxLen)
        ELSE putLoop(st, n.next[key.str[pos + 1]], pos + 1, key, maxLen)

\* One round of the loop of put() (lines 81-151) at node now; pos is the
\* value after pos++.
putStep(st, now, pos, key, maxLen) ==
    LET n == st.nodes[now]
    IN  IF pos = Len(key.str)
        THEN IF n.key # NilKey
             THEN IF pos >= Len(n.key.str) THEN Panic(st)
                  ELSE LET s1 == Link(st, now, n.key.str[pos + 1], n.key)
                       IN  AdjustAt(SetKey(s1, now, key), now, key, maxLen)
             ELSE AdjustAt(SetKey(st, now, key), now, key, maxLen)
        ELSE IF DOMAIN n.next = {}
        THEN IF n.key = NilKey THEN Panic(st)
             ELSE Bind(chainLoop(st, now, pos, key, n.key, maxLen),
                       LAMBDA c : split(c.st, c.now, c.pos, key, n.key, maxLen))
        ELSE IF key.str[pos + 1] \notin DOMAIN n.next
        THEN AdjustAt(Link(st, now, key.str[pos + 1], key), now, key, maxLen)
        ELSE putLoop(AdjustAt(st, now, key, maxLen), n.next[key.str[pos + 1]],
                     pos + 1, key, maxLen)

putLoop(st, now, pos, key, maxLen) ==
    Bind(<<st, now>>, LAMBDA a : putStep(a[1], a[2], pos, key, maxLen))

\* TireKWP.put
put(st, key, maxLen) ==
    IF Len(key.str) = 0 THEN Panic(st)
    ELSE IF key.str[1] \notin DOMAIN st.nodes[Root].next
    THEN AdjustAt(Link(st, Root, key.str[1], key), Root, key, maxLen)
    ELSE putLoop(AdjustAt(st, Root, key, maxLen), st.nodes[Root].next[key.str[1]],
                 1, key, maxLen)

\* ---------------------------------------------------------------- TireKWP
New(m) ==
    [nodes        |-> (Root :> newNode(NilKey)),
     maxSortedLen |-> m,
     len          |-> 0,
     nNodes       |-> 1,
     panic        |-> FALSE]

\* isDup comparing the code point count of the stored key with the byte
\* count of str.
isDupRuneLen(t, n, str) ==
    /\ n.res = "node"
    /\ t.nodes[n.n].key # NilKey
    /\ Len(t.nodes[n.n].key.str) = Len(str)

\* The duplicate test of Put (line 59) on the result n of get().
isDup(t, n, str) ==
    /\ n.res = "node"
    /\ t.nodes[n.n].key # NilKey
    /\ Len(t.nodes[n.n].key.Str) = Len(str)

\* Put from the duplicate test on (lines 58-64).
insert(t, key, str) ==
    LET ins(st) == [t EXCEPT !.nodes = st.nodes,
                             !.nNodes = st.nNodes,
                             !.panic = st.panic,
                             !.len = IF st.panic THEN @ ELSE @ + 1]
    IN  Bind(get(t.nodes, key.str), LAMBDA n :
            IF n.res = "panic" THEN [t EXCEPT !.panic = TRUE]
            ELSE IF isDup(t, n, str) THEN t
            ELSE Bind(put(TireState(t.nodes, t.nNodes, FALSE),
                          key, t.maxSortedLen), ins))

\* Put returning silently on the empty string.
PutSilent(t, str, weight) ==
    IF Len(str) <= 0 THEN t
    ELSE Bind(Keyword(str, weight), LAMBDA key :
            IF Len(key.str) <= 0 THEN [t EXCEPT !.panic = TRUE]
            ELSE insert(t, key, str))

\* TireKWP.Put: t with the fields the call leaves, panic set when it ended
\* in a panic.
Put(t, str, weight) ==
    IF Len(str) <= 0 THEN [t EXCEPT !.panic = TRUE]
    ELSE Bind(Keyword(str, weight), LAMBDA key :
            IF Len(key.str) <= 0 THEN [t EXCEPT !.panic = TRUE]
            ELSE insert(t, key, str))

\* A slice: elems when its backing array is its own, the keys of the ordered
\* map of node of when it shares that map's storage.
Slice(elems) == [shared |-> FALSE, of |-> Root, elems |-> elems]

\* Keys handing out the storage of the map itself.
KeysShared(ns, n) == [shared |-> TRUE, of |-> n, elems |-> <<>>]

\* rbTree.Keys of the map of node n: a new slice of Len() elements filled in
\* ascending order.
Keys(ns, n) == Slice(ns[n].sorted)

StrsOf(ks) == [i \in 1..Len(ks) |-> ks[i].Str]

\* What a slice returned earlier holds when the heap is ns.
Contents(sl, ns) == IF sl.shared THEN ns[sl.of].sorted ELSE sl.elems

\* The keys both Get and GetKWs start from (lines 155-164, 174-183).
lookup(t, str) ==
    IF str = <<>> THEN [panic |-> FALSE, keys |-> Keys(t.nodes, Root)]
    ELSE Bind(get(t.nodes, Runes(str)), LAMBDA n :
             IF n.res = "panic" THEN [panic |-> TRUE, keys |-> Slice(<<>>)]
             ELSE IF n.res = "node"
             THEN [panic |-> FALSE, keys |-> Keys(t.nodes, n.n)]
             ELSE [panic |-> FALSE, keys |-> Slice(<<>>)])

\* TireKWP.Get: the slice of keys reinterpreted as a slice of strings, each
\* element replaced in place by the Str of its keyword.
Get(t, str) ==
    Bind(lookup(t, str), LAMBDA l :
        [panic |-> l.panic,
         out   |-> [l.keys EXCEPT !.elems = StrsOf(@)],
         strs  |-> TRUE])

\* GetKWs answering every prefix with the keys of the root.
GetKWsOfRoot(t, str) ==
    [panic |-> FALSE, out |-> Slice(t.nodes[Root].sorted), strs |-> FALSE]

\* TireKWP.GetKWs: the keys copied into a new slice of *Keyword.
GetKWs(t, str) ==
    Bind(lookup(t, str), LAMBDA l :
        [panic |-> l.panic,
         out   |-> Slice(Contents(l.keys, t.nodes)),
         strs  |-> FALSE])

\* What the caller reads in a list a query returned, when the heap is ns.
Read(r, ns) ==
    IF r.strs /\ r.out.shared THEN StrsOf(Contents(r.out, ns))
    ELSE Contents(r.out, ns)

\* TireKWP.Len
TireLen(t) == t.len

\* TireKWP.Count
Count(t) == t.nNodes

\* ------------------------------------------------------- red-black tree
\* The ordered map of package rbtree.  In a tree of integers a pointer to a
\* node is the key the node was made for: such a tree never holds two nodes
\* with one key and no code assigns to node.key, so the key identifies a
\* node of the tree.  The sentinel of the tree is the pointer NilPtr.
NilPtr == 0

\* Go's nil pointer, and a pointer to a node that left the tree.
GoNil == -1
Stale == -2

\* Go's nil interface value, the key and the value of the sentinel.
nilValue == 0

red == "red"
black == "black"

RbKeys == 1..MaxRbKey
RbValues == 1..MaxRbValue

\* The CmpFunc of a tree of integers.
rbCmp(key1, key2) ==
    IF key1 = key2 THEN 0 ELSE IF key1 > key2 THEN 1 ELSE -1

\* A pointer to a node made for a keyword in heap h: the bytes of its
\* string, its weight, and the number of the allocation, as one positive
\* number that h does not hold yet.  (A tree ordered by cmp can come to hold
\* two nodes for one keyword, so the keyword alone is no pointer.)
RECURSIVE strCode(_)
strCode(s) ==
    IF s = <<>> THEN 0 ELSE s[Len(s)] + 256 * strCode(SubSeq(s, 1, Len(s) - 1))

keywordPtr(h, key) ==
    LET base == (key.Weight % (2 ^ WordBits)) + (2 ^ WordBits) * strCode(key.Str)
        ptr(c) == 1 + c + 8 * base
    IN  ptr(CHOOSE c \in 0..7 :
                /\ ptr(c) \notin DOMAIN h
                /\ \A d \in 0..(c - 1) : ptr(d) \in DOMAIN h)

\* t.cmp(key1, key2): the tree holds the name of the CmpFunc New was given.
callCmp(f, key1, key2) ==
    IF f = "cmp" THEN cmp(key1, key2) ELSE rbCmp(key1, key2)

\* The sentinel that New makes: &node{color: black}.
nilNode ==
    [key |-> nilValue, value |-> nilValue, parent |-> GoNil,
     left |-> GoNil, right |-> GoNil, color |-> black]

newNodeForInsert(key, value, parent) ==
    [key |-> key, value |-> value, parent |-> parent,
     left |-> NilPtr, right |-> NilPtr, color |-> red]

\* rbtree.New: the tree is its len, its root and the nodes h it points to.
\* Besides the fields of the struct, a tree carries the heap h its pointers
\* point into, the number base that sets the pointers to its nodes apart from
\* those of other trees, and the roots of the other trees whose nodes live
\* in h (none when the tree has a sentinel of its own).
rbNewOf(f) ==
    [cmp |-> f, len |-> 0, root |-> NilPtr, h |-> (NilPtr :> nilNode),
     base |-> 0, others |-> {}]

rbNew == rbNewOf("rbCmp")

rbLen(t) == t.len

RECURSIVE search(_, _, _)
search(t, p, key) ==
    IF p = NilPtr THEN p
    ELSE LET c == callCmp(t.cmp, t.h[p].key, key)
         IN  IF c = 0 THEN p
             ELSE IF c > 0 THEN search(t, t.h[p].left, key)
             ELSE search(t, t.h[p].right, key)

rbGet(t, key) ==
    LET p == search(t, t.root, key)
    IN  IF p = NilPtr THEN [value |-> nilValue, ok |-> FALSE]
        ELSE [value |-> t.h[p].value, ok |-> TRUE]

RECURSIVE min(_, _)
min(t, p) ==
    IF p # NilPtr /\ t.h[p].left # NilPtr THEN min(t, t.h[p].left) ELSE p

RECURSIVE max(_, _)
max(t, p) ==
    IF p # NilPtr /\ t.h[p].right # NilPtr THEN max(t, t.h[p].right) ELSE p

\* The loop of successor: from x with parent y, up while x is a right child.
RECURSIVE successorClimb(_, _, _)
successorClimb(t, x, y) ==
    IF y # NilPtr /\ x = t.h[y].right
    THEN successorClimb(t, y, t.h[y].parent)
    ELSE y

successor(t, n) ==
    IF t.h[n].right # NilPtr THEN min(t, t.h[n].right)
    ELSE successorClimb(t, n, t.h[n].parent)

predecessor(t, n) ==
    IF t.h[n].left # NilPtr THEN max(t, t.h[n].left)
    ELSE t.h[n].parent

rbMin(t) ==
    LET p == min(t, t.root)
    IN  IF p = NilPtr THEN [key |-> nilValue, value |-> nilValue]
        ELSE [key |-> t.h[p].key, value |-> t.h[p].value]

\* Max answering with the node the parent pointer of the sentinel names,
\* when it names one.
rbMaxOfSentinel(t) ==
    LET q == t.h[NilPtr].parent
        p == IF q \in DOMAIN t.h /\ q # NilPtr THEN q ELSE max(t, t.root)
    IN  IF p = NilPtr THEN [key |-> nilValue, value |-> nilValue]
        ELSE [key |-> t.h[p].key, value |-> t.h[p].value]

rbMax(t) ==
    LET p == max(t, t.root)
    IN  IF p = NilPtr THEN [key |-> nilValue, value |-> nilValue]
        ELSE [key |-> t.h[p].key, value |-> t.h[p].value]

\* The assignment that hangs y where x hung (leftRotate, rightRotate) and v
\* where u hung (transplant).
replaceChild(t, x, y) ==
    LET xp == t.h[x].parent
    IN  IF xp = NilPtr THEN [t EXCEPT !.root = y]
        ELSE IF x = t.h[xp].left THEN [t EXCEPT !.h[xp].left = y]
        ELSE [t EXCEPT !.h[xp].right = y]

leftRotate(t, x) ==
    LET y == t.h[x].right
        s1(s) == [s EXCEPT !.h[x].right = s.h[y].left]
        s2(s) == IF s.h[y].left # NilPtr
                 THEN [s EXCEPT !.h[s.h[y].left].parent = x] ELSE s
        s3(s) == [s EXCEPT !.h[y].parent = s.h[x].parent]
        s4(s) == replaceChild(s, x, y)
        s5(s) == [s EXCEPT !.h[y].left = x, !.h[x].parent = y]
    IN  Bind(Bind(Bind(Bind(Bind(t, s1), s2), s3), s4), s5)

rightRotate(t, x) ==
    LET y == t.h[x].left
        s1(s) == [s EXCEPT !.h[x].left = s.h[y].right]
        s2(s) == IF s.h[y].right # NilPtr
                 THEN [s EXCEPT !.h[s.h[y].right].parent = x] ELSE s
        s3(s) == [s EXCEPT !.h[y].parent = s.h[x].parent]
        s4(s) == replaceChild(s, x, y)
        s5(s) == [s EXCEPT !.h[y].right = x, !.h[x].parent = y]
    IN  Bind(Bind(Bind(Bind(Bind(t, s1), s2), s3), s4), s5)

transplant(t, u, v) ==
    LET s1(s) == replaceChild(s, u, v)
        s2(s) == [s EXCEPT !.h[v].parent = s.h[u].parent]
    IN  Bind(Bind(t, s1), s2)

\* Cases 2 and 3 of fixupInsert when z.parent is a left child, and when it
\* is a right child: the tree and z after them.
fixupInsertRotateL(t, z) ==
    LET s1(s) == IF s.z = s.t.h[s.t.h[s.z].parent].right
                 THEN [t |-> leftRotate(s.t, s.t.h[s.z].parent),
                       z |-> s.t.h[s.z].parent]
                 ELSE s
        s2(s) == LET p == s.t.h[s.z].parent
                 IN  [s EXCEPT !.t.h[p].color = black,
                               !.t.h[s.t.h[p].parent].color = red]
        s3(s) == [s EXCEPT
                    !.t = rightRotate(s.t, s.t.h[s.t.h[s.z].parent].parent)]
    IN  Bind(Bind(Bind([t |-> t, z |-> z], s1), s2), s3)

fixupInsertRotateR(t, z) ==
    LET s1(s) == IF s.z = s.t.h[s.t.h[s.z].parent].left
                 THEN [t |-> rightRotate(s.t, s.t.h[s.z].parent),
                       z |-> s.t.h[s.z].parent]
                 ELSE s
        s2(s) == LET p == s.t.h[s.z].parent
                 IN  [s EXCEPT !.t.h[p].color = black,
                               !.t.h[s.t.h[p].parent].color = red]
        s3(s) == [s EXCEPT
                    !.t = leftRotate(s.t, s.t.h[s.t.h[s.z].parent].parent)]
    IN  Bind(Bind(Bind([t |-> t, z |-> z], s1), s2), s3)

\* Case 1 of fixupInsert: the uncle y is red.
fixupInsertRecolor(t, z, y) ==
    LET p == t.h[z].parent
        g == t.h[p].parent
    IN  [t |-> [t EXCEPT !.h[p].color = black, !.h[y].color = black,
                         !.h[g].color = red],
         z |-> g]

\* One pass of the loop of fixupInsert.
fixupInsertStep(t, z) ==
    LET p == t.h[z].parent
        g == t.h[p].parent
    IN  IF p = t.h[g].left
        THEN IF t.h[t.h[g].right].color = red
             THEN fixupInsertRecolor(t, z, t.h[g].right)
             ELSE fixupInsertRotateL(t, z)
        ELSE IF t.h[t.h[g].left].color = red
             THEN fixupInsertRecolor(t, z, t.h[g].left)
             ELSE fixupInsertRotateR(t, z)

RECURSIVE fixupInsertLoop(_, _)
fixupInsertLoop(t, z) ==
    IF t.h[t.h[z].parent].color = red
    THEN Bind(fixupInsertStep(t, z), LAMBDA s : fixupInsertLoop(s.t, s.z))
    ELSE t

fixupInsert(t, z) ==
    Bind(fixupInsertLoop(t, z), LAMBDA s : [s EXCEPT !.h[s.root].color = black])

\* The walk of Put from the root: the node with the key when there is one,
\* else the node y the new node hangs from.
RECURSIVE putWalk(_, _, _, _)
putWalk(t, x, y, key) ==
    IF x = NilPtr THEN [found |-> FALSE, y |-> y]
    ELSE IF callCmp(t.cmp, t.h[x].key, key) = 0 THEN [found |-> TRUE, y |-> x]
    ELSE IF callCmp(t.cmp, t.h[x].key, key) > 0 THEN putWalk(t, t.h[x].left, x, key)
    ELSE putWalk(t, t.h[x].right, x, key)

\* The new node z of Put, hung from y.
putAttach(t, y, key, value) ==
    LET z == IF t.cmp = "cmp" THEN keywordPtr(t.h, key) ELSE t.base + key
        s1(s) == [s EXCEPT !.h = (z :> newNodeForInsert(key, value, y)) @@ @]
        s2(s) == IF y = NilPtr THEN [s EXCEPT !.root = z]
                 ELSE IF callCmp(s.cmp, s.h[y].key, key) > 0
                 THEN [s EXCEPT !.h[y].left = z]
                 ELSE [s EXCEPT !.h[y].right = z]
        s3(s) == [s EXCEPT !.len = @ + 1]
        s4(s) == fixupInsert(s, z)
    IN  Bind(Bind(Bind(Bind(t, s1), s2), s3), s4)

\* rbPut without the assignment x.value = value.
rbPutKeep(t, key, value) ==
    Bind(putWalk(t, t.root, NilPtr, key),
         LAMBDA w : IF w.found THEN t
                    ELSE putAttach(t, w.y, key, value))

rbPut(t, key, value) ==
    Bind(putWalk(t, t.root, NilPtr, key),
         LAMBDA w : IF w.found THEN [t EXCEPT !.h[w.y].value = value]
                    ELSE putAttach(t, w.y, key, value))

\* fixupDelete when x is a left child: case 1, then case 2 or cases 3 and
\* 4; the tree and x after the pass.
fixupDeleteL(t, x) ==
    LET s1(s) ==
            LET p == s.h[x].parent
                w == s.h[p].right
            IN  IF s.h[w].color = red
                THEN Bind([s EXCEPT !.h[w].color = black, !.h[p].color = red],
                          LAMBDA u : leftRotate(u, u.h[x].parent))
                ELSE s
        s3(s) ==
            LET w == s.h[s.h[x].parent].right
            IN  IF s.h[s.h[w].right].color = black
                THEN Bind([s EXCEPT !.h[s.h[w].left].color = black,
                                    !.h[w].color = red],
                          LAMBDA u : rightRotate(u, w))
                ELSE s
        s4(s) ==
            LET p == s.h[x].parent
                w == s.h[p].right
            IN  Bind([s EXCEPT !.h[w].color = s.h[p].color,
                               !.h[p].color = black,
                               !.h[s.h[w].right].color = black],
                     LAMBDA u : leftRotate(u, u.h[x].parent))
        s2(s) ==
            LET p == s.h[x].parent
                w == s.h[p].right
            IN  IF /\ s.h[s.h[w].left].color = black
                   /\ s.h[s.h[w].right].color = black
                THEN [t |-> [s EXCEPT !.h[w].color = red], x |-> p]
                ELSE Bind(Bind(Bind(s, s3), s4),
                          LAMBDA u : [t |-> u, x |-> u.root])
    IN  Bind(Bind(t, s1), s2)

fixupDeleteR(t, x) ==
    LET s1(s) ==
            LET p == s.h[x].parent
                w == s.h[p].left
            IN  IF s.h[w].color = red
                THEN Bind([s EXCEPT !.h[w].color = black, !.h[p].color = red],
                          LAMBDA u : rightRotate(u, u.h[x].parent))
                ELSE s
        s3(s) ==
            LET w == s.h[s.h[x].parent].left
            IN  IF s.h[s.h[w].left].color = black
                THEN Bind([s EXCEPT !.h[s.h[w].right].color = black,
                                    !.h[w].color = red],
                          LAMBDA u : leftRotate(u, w))
                ELSE s
        s4(s) ==
            LET p == s.h[x].parent
                w == s.h[p].left
            IN  Bind([s EXCEPT !.h[w].color = s.h[p].color,
                               !.h[p].color = black,
                               !.h[s.h[w].left].color = black],
                     LAMBDA u : rightRotate(u, u.h[x].parent))
        s2(s) ==
            LET p == s.h[x].parent
                w == s.h[p].left
            IN  IF /\ s.h[s.h[w].left].color = black
                   /\ s.h[s.h[w].right].color = black
                THEN [t |-> [s EXCEPT !.h[w].color = red], x |-> p]
                ELSE Bind(Bind(Bind(s, s3), s4),
                          LAMBDA u : [t |-> u, x |-> u.root])
    IN  Bind(Bind(t, s1), s2)

RECURSIVE fixupDeleteLoop(_, _)
fixupDeleteLoop(t, x) ==
    IF x # t.root /\ t.h[x].color = black
    THEN Bind(IF x = t.h[t.h[x].parent].left THEN fixupDeleteL(t, x)
              ELSE fixupDeleteR(t, x),
              LAMBDA s : fixupDeleteLoop(s.t, s.x))
    ELSE [t |-> t, x |-> x]

\* fixupDelete without its loop: x only turns black.
fixupDeleteNoLoop(t, x) == [t EXCEPT !.h[x].color = black]

fixupDelete(t, x) ==
    Bind(fixupDeleteLoop(t, x), LAMBDA s : [s.t EXCEPT !.h[s.x].color = black])

\* The third branch of delete: z has two children and y, the minimum of its
\* right subtree, takes its place.
deleteTwo(t, z) ==
    LET y == min(t, t.h[z].right)
        s1(s) == IF s.h[y].parent = z
                 THEN [s EXCEPT !.h[s.h[y].right].parent = y]
                 ELSE Bind(transplant(s, y, s.h[y].right),
                           LAMBDA u : [u EXCEPT !.h[y].right = u.h[z].right,
                                                !.h[u.h[z].right].parent = y])
        s2(s) == transplant(s, z, y)
        s3(s) == [s EXCEPT !.h[y].left = s.h[z].left,
                           !.h[s.h[z].left].parent = y,
                           !.h[y].color = s.h[z].color]
    IN  [t |-> Bind(Bind(Bind(t, s1), s2), s3),
         x |-> t.h[y].right, color |-> t.h[y].color]

\* delete: the node z leaves the tree.
delete(t, z) ==
    IF z = NilPtr THEN t
    ELSE LET s1(s) ==
                 IF s.h[z].left = NilPtr
                 THEN [t |-> transplant(s, z, s.h[z].right),
                       x |-> s.h[z].right, color |-> s.h[z].color]
                 ELSE IF s.h[z].right = NilPtr
                 THEN [t |-> transplant(s, z, s.h[z].left),
                       x |-> s.h[z].left, color |-> s.h[z].color]
                 ELSE deleteTwo(s, z)
             s2(d) == [d EXCEPT !.t.len = @ - 1]
             s3(d) == IF d.color = black THEN fixupDelete(d.t, d.x) ELSE d.t
         IN  Bind(Bind(Bind(t, s1), s2), s3)

\* The nodes of the subtree of n.
RECURSIVE treeNodes(_, _)
treeNodes(t, n) ==
    IF n = NilPtr THEN {}
    ELSE {n} \cup treeNodes(t, t.h[n].left) \cup treeNodes(t, t.h[n].right)

\* The tree once the node that delete unlinked is gone: a pointer the
\* sentinel keeps to it is a pointer to no node of the tree.
collect(t) ==
    LET live == treeNodes(t, t.root) \cup {NilPtr}
                    \cup UNION {treeNodes(t, r) : r \in t.others}
        np == t.h[NilPtr].parent
    IN  [t EXCEPT !.h =
            [p \in live |->
                IF p = NilPtr /\ np \notin live \cup {GoNil}
                THEN [t.h[p] EXCEPT !.parent = Stale]
                ELSE t.h[p]]]

rbDelete(t, key) ==
    LET z == search(t, t.root, key)
    IN  IF z = NilPtr THEN t ELSE collect(delete(t, z))

\* rbPopMin returning the minimum without the call of delete.
rbPopMinKeep(t) ==
    LET p == min(t, t.root)
    IN  [t |-> t, key |-> t.h[p].key, value |-> t.h[p].value]

rbPopMin(t) ==
    LET p == min(t, t.root)
    IN  Bind(delete(t, p),
             LAMBDA s : [t |-> collect(s),
                         key |-> s.h[p].key, value |-> s.h[p].value])

rbPopMax(t) ==
    LET p == max(t, t.root)
    IN  Bind(delete(t, p),
             LAMBDA s : [t |-> collect(s),
                         key |-> s.h[p].key, value |-> s.h[p].value])

\* pair.Pair and its zero value.
Pair(first, second) == [First |-> first, Second |-> second]
zeroPair == Pair(nilValue, nilValue)

\* The nodes of the subtree of n in the order rangeAllAsc, rangeKeysAsc and
\* rangeValuesAsc visit them, and in the order rangeAllDesc visits them.
RECURSIVE walkAsc(_, _)
walkAsc(t, n) ==
    IF n = NilPtr THEN <<>>
    ELSE (IF t.h[n].left # NilPtr THEN walkAsc(t, t.h[n].left) ELSE <<>>)
         \o <<n>>
         \o (IF t.h[n].right # NilPtr THEN walkAsc(t, t.h[n].right) ELSE <<>>)

RECURSIVE walkDesc(_, _)
walkDesc(t, n) ==
    IF n = NilPtr THEN <<>>
    ELSE (IF t.h[n].right # NilPtr THEN walkDesc(t, t.h[n].right) ELSE <<>>)
         \o <<n>>
         \o (IF t.h[n].left # NilPtr THEN walkDesc(t, t.h[n].left) ELSE <<>>)

\* res := make(..., t.len) filled from position 0 with the items of a walk:
\* a write past the end of res panics, a position not written keeps zero.
filled(n, items, zero) ==
    IF Len(items) > n THEN [panic |-> TRUE, out |-> <<>>]
    ELSE [panic |-> FALSE,
          out |-> [i \in 1..n |-> IF i <= Len(items) THEN items[i] ELSE zero]]

pairOf(t, p) == Pair(t.h[p].key, t.h[p].value)

rbKeys(t) ==
    LET w == walkAsc(t, t.root)
    IN  filled(t.len, [i \in 1..Len(w) |-> t.h[w[i]].key], nilValue)

rbValues(t) ==
    LET w == walkAsc(t, t.root)
    IN  filled(t.len, [i \in 1..Len(w) |-> t.h[w[i]].value], nilValue)

rbRangeAll(t) ==
    LET w == walkAsc(t, t.root)
    IN  filled(t.len, [i \in 1..Len(w) |-> pairOf(t, w[i])], zeroPair)

\* rbRangeAllDesc walking left before right.
rbRangeAllDescLeftFirst(t) ==
    LET w == walkAsc(t, t.root)
    IN  filled(t.len, [i \in 1..Len(w) |-> pairOf(t, w[i])], zeroPair)

rbRangeAllDesc(t) ==
    LET w == walkDesc(t, t.root)
    IN  filled(t.len, [i \in 1..Len(w) |-> pairOf(t, w[i])], zeroPair)

\* rangeAsc leaving out the entry whose key is maxKey.
RECURSIVE rangeAscOpen(_, _, _, _, _)
rangeAscOpen(t, n, res, minKey, maxKey) ==
    IF n = NilPtr THEN res
    ELSE LET cmpMin == callCmp(t.cmp, t.h[n].key, minKey)
             cmpMax == callCmp(t.cmp, t.h[n].key, maxKey)
             s1(r) == IF cmpMin > 0
                      THEN rangeAscOpen(t, t.h[n].left, r, minKey, maxKey)
                      ELSE r
             s2(r) == IF cmpMin >= 0 /\ cmpMax < 0
                      THEN Append(r, pairOf(t, n)) ELSE r
             s3(r) == IF cmpMax < 0
                      THEN rangeAscOpen(t, t.h[n].right, r, minKey, maxKey)
                      ELSE r
         IN  Bind(Bind(Bind(res, s1), s2), s3)

RECURSIVE rangeAsc(_, _, _, _, _)
rangeAsc(t, n, res, minKey, maxKey) ==
    IF n = NilPtr THEN res
    ELSE LET cmpMin == callCmp(t.cmp, t.h[n].key, minKey)
             cmpMax == callCmp(t.cmp, t.h[n].key, maxKey)
             s1(r) == IF cmpMin > 0
                      THEN rangeAsc(t, t.h[n].left, r, minKey, maxKey) ELSE r
             s2(r) == IF cmpMin >= 0 /\ cmpMax <= 0
                      THEN Append(r, pairOf(t, n)) ELSE r
             s3(r) == IF cmpMax < 0
                      THEN rangeAsc(t, t.h[n].right, r, minKey, maxKey) ELSE r
         IN  Bind(Bind(Bind(res, s1), s2), s3)

RECURSIVE rangeDesc(_, _, _, _, _)
rangeDesc(t, n, res, minKey, maxKey) ==
    IF n = NilPtr THEN res
    ELSE LET cmpMin == callCmp(t.cmp, t.h[n].key, minKey)
             cmpMax == callCmp(t.cmp, t.h[n].key, maxKey)
             s1(r) == IF cmpMax < 0
                      THEN rangeDesc(t, t.h[n].right, r, minKey, maxKey) ELSE r
             s2(r) == IF cmpMin >= 0 /\ cmpMax <= 0
                      THEN Append(r, pairOf(t, n)) ELSE r
             s3(r) == IF cmpMin > 0
                      THEN rangeDesc(t, t.h[n].left, r, minKey, maxKey) ELSE r
         IN  Bind(Bind(Bind(res, s1), s2), s3)

RECURSIVE rangeAscN(_, _, _, _, _)
rangeAscN(t, n, res, num, key) ==
    IF n = NilPtr THEN res
    ELSE LET iCmp == callCmp(t.cmp, t.h[n].key, key)
             s1(r) == IF iCmp > 0 /\ Len(r) < num
                      THEN rangeAscN(t, t.h[n].left, r, num, key) ELSE r
             s2(r) == IF iCmp >= 0 /\ Len(r) < num
                      THEN Append(r, pairOf(t, n)) ELSE r
             s3(r) == IF Len(r) < num
                      THEN rangeAscN(t, t.h[n].right, r, num, key) ELSE r
         IN  Bind(Bind(Bind(res, s1), s2), s3)

RECURSIVE rangeDescN(_, _, _, _, _)
rangeDescN(t, n, res, num, key) ==
    IF n = NilPtr THEN res
    ELSE LET iCmp == callCmp(t.cmp, t.h[n].key, key)
             s1(r) == IF iCmp < 0 /\ Len(r) < num
                      THEN rangeDescN(t, t.h[n].right, r, num, key) ELSE r
             s2(r) == IF iCmp <= 0 /\ Len(r) < num
                      THEN Append(r, pairOf(t, n)) ELSE r
             s3(r) == IF Len(r) < num
                      THEN rangeDescN(t, t.h[n].left, r, num, key) ELSE r
         IN  Bind(Bind(Bind(res, s1), s2), s3)

rbRange(t, minKey, maxKey) == rangeAsc(t, t.root, <<>>, minKey, maxKey)
rbRangeDesc(t, minKey, maxKey) == rangeDesc(t, t.root, <<>>, minKey, maxKey)
\* rbRangeN stopping one entry late.
rbRangeNLate(t, num, key) == rangeAscN(t, t.root, <<>>, num + 1, key)

rbRangeN(t, num, key) == rangeAscN(t, t.root, <<>>, num, key)
rbRangeDescN(t, num, key) == rangeDescN(t, t.root, <<>>, num, key)

\* ------------------------------------------------------------------ state
VARIABLES
    nodes,          \* the heap of nodes, root at Root
    maxSortedLen,   \* TireKWP.maxSortedLen
    len,            \* TireKWP.len
    nNodes,         \* TireKWP.nNodes
    panicked,       \* a call ended in a panic
    puts,           \* the strings of the Put calls that returned
    calls,          \* the number of Put calls made
    last,           \* what the last Put call was given
    held,           \* the list a caller keeps from a query, as it was returned
    tree,           \* a red-black tree of integers
    model,          \* the entries a map holds after the calls made on tree
    rbLast          \* the last call on tree and what it returned

tireVars ==
    <<nodes, maxSortedLen, len, nNodes, panicked, puts, calls, last, held>>

rbVars == <<tree, model, rbLast>>

vars == <<tireVars, rbVars>>

\* The TireKWP of the current state.
Tire ==
    [nodes        |-> nodes,
     maxSortedLen |-> maxSortedLen,
     len          |-> len,
     nNodes       |-> nNodes,
     panic        |-> panicked]

\* A call on the tree: its name, the pair it returned, and whether the key
\* it was given (for PopMin and PopMax: any key) was in the tree.
rbCall(op, key, value, present) ==
    [op |-> op, key |-> key, value |-> value, present |-> present]

NoHeld ==
    [has |-> FALSE, q |-> <<>>,
     r |-> [panic |-> FALSE, out |-> Slice(<<>>), strs |-> TRUE], seen |-> <<>>]

\* The inputs of Put and of the queries.
PutStrs == Strs \cup {<<>>}
Queries == Strs \cup {<<>>}

\* The nodes reachable from node p by next pointers, p included.
RECURSIVE Subtree(_, _)
Subtree(ns, p) ==
    {p} \cup UNION {Subtree(ns, ns[p].next[r]) : r \in DOMAIN ns[p].next}

\* The keywords held at the nodes of the subtree of p.
KeysUnder(ns, p) == {ns[x].key : x \in Subtree(ns, p)} \ {NilKey}

\* The keywords the index stores, and their strings.
Stored(ns) == KeysUnder(ns, Root)
StoredStrs(ns) == {k.Str : k \in Stored(ns)}

InitTire(ms) ==
    /\ maxSortedLen \in ms
    /\ LET t == New(maxSortedLen)
       IN  /\ nodes = t.nodes
           /\ len = t.len
           /\ nNodes = t.nNodes
           /\ panicked = t.panic
    /\ puts = {}
    /\ calls = 0
    /\ last = "New"
    /\ held = NoHeld

InitWith(ms) ==
    /\ InitTire(ms)
    /\ tree = rbNew
    /\ model = {}
    /\ rbLast = rbCall("New", nilValue, nilValue, FALSE)

Init == InitWith(0..MaxM)

CallPut(s, w) ==
    /\ ~panicked
    /\ calls < MaxPuts
    /\ \E t \in {Put(Tire, s, w)} :
           /\ nodes' = t.nodes
           /\ len' = t.len
           /\ nNodes' = t.nNodes
           /\ panicked' = t.panic
           /\ puts' = IF t.panic THEN puts ELSE puts \cup {s}
           /\ last' = IF s = <<>> THEN "PutEmpty"
                      ELSE IF Keyword(s, w) \in Stored(nodes) THEN "PutDup"
                      ELSE IF s \in StoredStrs(nodes) THEN "PutDupWeight"
                      ELSE "PutNew"
    /\ calls' = calls + 1
    /\ UNCHANGED <<maxSortedLen, held, rbVars>>

\* A query whose result the caller reads and drops.
CallGet(q) ==
    /\ ~panicked
    /\ panicked' = Get(Tire, q).panic
    /\ UNCHANGED <<nodes, maxSortedLen, len, nNodes, puts, calls, last, held, rbVars>>

CallGetKWs(q) ==
    /\ ~panicked
    /\ panicked' = GetKWs(Tire, q).panic
    /\ UNCHANGED <<nodes, maxSortedLen, len, nNodes, puts, calls, last, held, rbVars>>

\* A query whose result the caller keeps.
Hold(q, res) ==
    /\ ~panicked
    /\ \E r \in {res} :
           /\ panicked' = r.panic
           /\ held' = [has |-> TRUE, q |-> q, r |-> r, seen |-> Read(r, nodes)]
    /\ UNCHANGED <<nodes, maxSortedLen, len, nNodes, puts, calls, last, rbVars>>

KeepGet(q) == Hold(q, Get(Tire, q))

KeepGetKWs(q) == Hold(q, GetKWs(Tire, q))

Next ==
    \/ \E s \in PutStrs, w \in Weights : CallPut(s, w)
    \/ \E q \in Queries : CallGet(q)
    \/ \E q \in Queries : CallGetKWs(q)

Spec == Init /\ [][Next]_vars

\* The runs in which callers keep the lists the queries return, over the
\* valid strings of up to MaxSnapLen pieces.
SnapStrs == StrsOver(ValidChunks, MaxSnapLen)

InitSnap == InitWith(1..MaxM)

NextSnap ==
    \/ \E s \in SnapStrs, w \in Weights : CallPut(s, w)
    \/ \E q \in SnapStrs \cup {<<>>} : KeepGet(q)
    \/ \E q \in SnapStrs \cup {<<>>} : KeepGetKWs(q)

SpecSnap == InitSnap /\ [][NextSnap]_vars

\* ------------------------------------------------ the red-black tree runs
\* The map the calls on the tree describe: a set of pairs, one per key.
refKeys(m) == {e.First : e \in m}
refPut(m, key, value) == {e \in m : e.First # key} \cup {Pair(key, value)}
refDelete(m, key) == {e \in m : e.First # key}
refMin(m) == CHOOSE e \in m : \A o \in m : e.First <= o.First
refMax(m) == CHOOSE e \in m : \A o \in m : e.First >= o.First

\* The pairs of the map m in ascending order of their keys.
RECURSIVE refAsc(_)
refAsc(m) ==
    IF m = {} THEN <<>> ELSE <<refMin(m)>> \o refAsc(m \ {refMin(m)})

Reverse(s) == [i \in 1..Len(s) |-> s[Len(s) + 1 - i]]

\* The pairs held at the nodes of the tree t.
rbEntries(t) == {pairOf(t, p) : p \in treeNodes(t, t.root)}

\* The arguments of the range queries: the keys and one value on each side.
RangeKeys == 0..(MaxRbKey + 1)
RangeNums == 0..(MaxRbKey + 1)

InitRb == InitWith({1})

RbCallPut(key, value) ==
    /\ \E t \in {rbPut(tree, key, value)} : tree' = t
    /\ model' = refPut(model, key, value)
    /\ rbLast' = rbCall("Put", nilValue, nilValue, key \in refKeys(model))
    /\ UNCHANGED tireVars

RbCallDelete(key) ==
    /\ \E t \in {rbDelete(tree, key)} : tree' = t
    /\ model' = refDelete(model, key)
    /\ rbLast' = rbCall("Delete", nilValue, nilValue, key \in refKeys(model))
    /\ UNCHANGED tireVars

RbCallPopMin ==
    /\ \E r \in {rbPopMin(tree)} :
           /\ tree' = r.t
           /\ rbLast' = rbCall("PopMin", r.key, r.value, model # {})
    /\ model' = IF model = {} THEN model ELSE model \ {refMin(model)}
    /\ UNCHANGED tireVars

RbCallPopMax ==
    /\ \E r \in {rbPopMax(tree)} :
           /\ tree' = r.t
           /\ rbLast' = rbCall("PopMax", r.key, r.value, model # {})
    /\ model' = IF model = {} THEN model ELSE model \ {refMax(model)}
    /\ UNCHANGED tireVars

NextRb ==
    \/ \E key \in RbKeys, value \in RbValues : RbCallPut(key, value)
    \/ \E key \in RbKeys : RbCallDelete(key)
    \/ RbCallPopMin
    \/ RbCallPopMax

SpecRb == InitRb /\ [][NextRb]_vars

\* ------------------------------- two trees that share the sentinel
\* Two RbTree instances of package rbtree, whose sentinel is the one node
\* nilNode of the package: tree holds the heap h both live in and the fields
\* of either, model holds for comparison two trees with a sentinel each that
\* get the same calls, rbLast the result of the last call next to the
\* result of the same call on the tree with its own sentinel.
ShTrees == 1..2
\* The keys of tree i: the second tree takes one key less.
ShKeys(i) == 1..(MaxShKey + 1 - i)
ShValues == 1..MaxShValue
ShBase(i) == (i - 1) * (MaxShKey + 1)

shNew ==
    [h |-> (NilPtr :> nilNode),
     trees |-> [i \in ShTrees |-> [len |-> 0, root |-> NilPtr]]]

\* Tree i as a tree of the shared heap, and the shared heap after a call
\* left tree i as t.
shTree(w, i) ==
    [cmp |-> "rbCmp", len |-> w.trees[i].len, root |-> w.trees[i].root,
     h |-> w.h, base |-> ShBase(i),
     others |-> {w.trees[j].root : j \in ShTrees \ {i}}]

shStore(w, i, t) ==
    [h |-> t.h, trees |-> [w.trees EXCEPT ![i] = [len |-> t.len, root |-> t.root]]]

\* The tree that has its own sentinel and the pointers of tree i.
soloNew(i) == [rbNew EXCEPT !.base = ShBase(i)]

shCall(op, i, got, want) == [op |-> op, tree |-> i, got |-> got, want |-> want]

\* RbTree.Get returns the value alone, nil when the key is missing.
shGet(t, key) == rbGet(t, key).value

InitShared ==
    /\ InitTire({1})
    /\ tree = shNew
    /\ model = [i \in ShTrees |-> soloNew(i)]
    /\ rbLast = shCall("New", 0, nilValue, nilValue)

ShCallPut(i, key, value) ==
    /\ \E t \in {rbPut(shTree(tree, i), key, value)},
          s \in {rbPut(model[i], key, value)} :
           /\ tree' = shStore(tree, i, t)
           /\ model' = [model EXCEPT ![i] = s]
    /\ rbLast' = shCall("Put", i, nilValue, nilValue)
    /\ UNCHANGED tireVars

ShCallDelete(i, key) ==
    /\ \E t \in {rbDelete(shTree(tree, i), key)},
          s \in {rbDelete(model[i], key)} :
           /\ tree' = shStore(tree, i, t)
           /\ model' = [model EXCEPT ![i] = s]
    /\ rbLast' = shCall("Delete", i, nilValue, nilValue)
    /\ UNCHANGED tireVars

ShCallPopMin(i) ==
    /\ \E r \in {rbPopMin(shTree(tree, i))}, s \in {rbPopMin(model[i])} :
           /\ tree' = shStore(tree, i, r.t)
           /\ model' = [model EXCEPT ![i] = s.t]
           /\ rbLast' = shCall("PopMin", i, Pair(r.key, r.value),
                                Pair(s.key, s.value))
    /\ UNCHANGED tireVars

ShCallPopMax(i) ==
    /\ \E r \in {rbPopMax(shTree(tree, i))}, s \in {rbPopMax(model[i])} :
           /\ tree' = shStore(tree, i, r.t)
           /\ model' = [model EXCEPT ![i] = s.t]
           /\ rbLast' = shCall("PopMax", i, Pair(r.key, r.value),
                                Pair(s.key, s.value))
    /\ UNCHANGED tireVars

ShCallGet(i, key) ==
    /\ rbLast' = shCall("Get", i, shGet(shTree(tree, i), key), shGet(model[i], key))
    /\ UNCHANGED <<tireVars, tree, model>>

ShCallMin(i) ==
    /\ rbLast' = shCall("Min", i, rbMin(shTree(tree, i)), rbMin(model[i]))
    /\ UNCHANGED <<tireVars, tree, model>>

ShCallMax(i) ==
    /\ rbLast' = shCall("Max", i, rbMax(shTree(tree, i)), rbMax(model[i]))
    /\ UNCHANGED <<tireVars, tree, model>>

NextShared ==
    \E i \in ShTrees :
        \/ \E key \in ShKeys(i), value \in ShValues : ShCallPut(i, key, value)
        \/ \E key \in ShKeys(i) : ShCallDelete(i, key)
        \/ ShCallPopMin(i)
        \/ ShCallPopMax(i)
        \/ \E key \in ShKeys(i) : ShCallGet(i, key)
        \/ ShCallMin(i)
        \/ ShCallMax(i)

SpecShared == InitShared /\ [][NextShared]_vars

\* ------------------------------------------- runs of node.adjustSorted
\* One top-K set n.sorted, the tree orderedmap.NewAny(cmp) of newNode, under
\* calls of adjustSorted with the capacity maxSortedLen of its index.
TopKStrs == {<<97>>, <<98>>, <<99>>}
TopKKeys == {Keyword(s, w) : s \in TopKStrs, w \in Weights}

\* node.adjustSorted on the tree behind n.sorted.
adjustSortedRb(t, key, maxLen) ==
    Bind(rbPut(t, key, nilValue),
         LAMBDA s : IF rbLen(s) > maxLen THEN rbPopMax(s).t ELSE s)

InitTopK ==
    /\ InitTire(1..MaxTopK)
    /\ tree = rbNewOf("cmp")
    /\ model = {}
    /\ rbLast = rbCall("NewAny", nilValue, nilValue, FALSE)

TopKAdjust(key) ==
    /\ \E t \in {adjustSortedRb(tree, key, maxSortedLen)} :
           /\ tree' = t
           /\ rbLast' = rbCall("adjustSorted", key, nilValue,
                               \E p \in DOMAIN tree.h \ {NilPtr} :
                                   tree.h[p].key.Str = key.Str)
    /\ UNCHANGED <<tireVars, model>>

NextTopK == \E key \in TopKKeys : TopKAdjust(key)

SpecTopK == InitTopK /\ [][NextTopK]_vars


\* ------------------------------------------- Puts of distinct strings
\* The runs that put pairwise distinct non-empty strings into a new index of
\* capacity M >= 1; model holds the (string, weight) pairs put so far.
PutAllowed(s) == s # <<>> /\ \A e \in model : e.First # s

InitOrder ==
    /\ InitTire(1..MaxM)
    /\ tree = rbNew
    /\ model = {}
    /\ rbLast = rbCall("New", nilValue, nilValue, FALSE)

OrderPut(s, w) ==
    /\ PutAllowed(s)
    /\ CallPut(s, w)!1
    /\ CallPut(s, w)!2
    /\ CallPut(s, w)!3
    /\ calls' = calls + 1
    /\ model' = model \cup {Pair(s, w)}
    /\ UNCHANGED <<maxSortedLen, held, tree, rbLast>>

NextOrder == \E s \in PutStrs, w \in Weights : OrderPut(s, w)

SpecOrder == InitOrder /\ [][NextOrder]_vars

\* The index after the Puts of the pairs of P in one fixed order, up to the
\* first Put that panics.
RECURSIVE PutAll(_, _)
PutAll(t, P) ==
    IF P = {} \/ t.panic THEN t
    ELSE LET e == CHOOSE x \in P : TRUE
         IN  Bind(Put(t, e.First, e.Second), LAMBDA u : PutAll(u, P \ {e}))

\* ------------------------------------------------------- calls of cmp
\* cmp on keywords whose weights range over every machine integer.
MachineInts == (-(2 ^ (WordBits - 1)))..(2 ^ (WordBits - 1) - 1)
CmpStrs == {<<97>>, <<98>>}
CmpKeys == {Keyword(s, w) : s \in CmpStrs, w \in MachineInts}

\* A call cmp(k1, k2): its arguments and, once it returned, the int it
\* returned.
cmpCall(k1, k2, done, out) ==
    [op |-> "cmp", key |-> k1, value |-> k2, done |-> done, out |-> out]

InitCmp ==
    /\ InitTire({1})
    /\ tree = rbNew
    /\ model = {}
    /\ rbLast \in {cmpCall(k1, k2, FALSE, 0) : k1, k2 \in CmpKeys}

CallCmp ==
    /\ ~rbLast.done
    /\ rbLast' = cmpCall(rbLast.key, rbLast.value, TRUE,
                         cmp(rbLast.key, rbLast.value))
    /\ UNCHANGED <<tireVars, tree, model>>

NextCmp == CallCmp

SpecCmp == InitCmp /\ [][NextCmp]_vars

\* ----------------------------------------------------- reference notions
\* k1 ranks before k2: the larger weight first, equal weights by ascending
\* string.
Before(k1, k2) ==
    \/ k1.Weight > k2.Weight
    \/ k1.Weight = k2.Weight /\ Compare(k1.Str, k2.Str) < 0

\* The keywords of the set S, best first.
RECURSIVE Ranked(_)
Ranked(S) ==
    IF S = {} THEN <<>>
    ELSE LET b == CHOOSE k \in S : \A o \in S \ {k} : Before(k, o)
         IN  <<b>> \o Ranked(S \ {b})

Take(s, n) == SubSeq(s, 1, IF Len(s) < n THEN Len(s) ELSE n)

\* The stored keywords whose code points start with those of the string q.
Matching(ns, q) == {k \in Stored(ns) : IsPrefix(Runes(q), k.str)}

C2_DuplicatePutNoOp ==
    [][(calls' = calls + 1 /\ last' \in {"PutDup", "PutDupWeight"})
          => UNCHANGED <<nodes, maxSortedLen, len, nNodes, panicked>>]_vars

\* A stored string was put again with a weight other than the stored one.
C2_Witness == last = "PutDupWeight" /\ ~panicked /\ len >= 2

\* C3: Len() is the number of distinct strings that have been put.
C3_LenCountsStrings ==
    (maxSortedLen >= 1 /\ ~panicked) => len = Cardinality(puts)

\* C4: no two nodes hold keywords of the same string, and the duplicate test
\* of Put answers yes for a string exactly when the index stores it.
C4_UniqueStrings ==
    (maxSortedLen >= 1 /\ ~panicked) =>
        /\ \A x, y \in Subtree(nodes, Root) :
               (x # y /\ nodes[x].key # NilKey /\ nodes[y].key # NilKey)
                   => nodes[x].key.Str # nodes[y].key.Str
        /\ \A s \in Strs :
               isDup(Tire, get(nodes, Runes(s)), s) <=> s \in StoredStrs(nodes)

\* C5: with capacity M >= 1 the top-K map of every node holds at most M
\* keywords after every Put, and no query returns more than M.
C5_ResultBound ==
    (maxSortedLen >= 1 /\ ~panicked) =>
        /\ \A x \in Subtree(nodes, Root) : Len(nodes[x].sorted) <= maxSortedLen
        /\ \A q \in Queries : Len(Read(Get(Tire, q), nodes)) <= maxSortedLen

\* A node with more than M keywords below it whose map holds M.
C5_Witness ==
    /\ maxSortedLen >= 1
    /\ ~panicked
    /\ \E x \in Subtree(nodes, Root) :
        /\ Cardinality(KeysUnder(nodes, x)) > maxSortedLen
        /\ Len(nodes[x].sorted) = maxSortedLen

\* C6: in every state reached by Put calls, the empty index included, Get
\* and GetKWs end without a panic for every prefix, and return the empty
\* list when no stored keyword starts with the prefix.
C6_QueriesTotal ==
    ~panicked =>
        \A q \in Queries :
            /\ ~Get(Tire, q).panic
            /\ ~GetKWs(Tire, q).panic
            /\ Matching(nodes, q) = {} =>
                   /\ Read(Get(Tire, q), nodes) = <<>>
                   /\ Read(GetKWs(Tire, q), nodes) = <<>>

\* An index queried with a prefix longer than every stored keyword, and
\* with one that leaves the tree below the root.
C6_Witness ==
    /\ ~panicked
    /\ len >= 2
    /\ \E q \in Strs :
        /\ \A k \in Stored(nodes) : Len(Runes(q)) > Len(k.str)
        /\ \E k \in Stored(nodes) : Runes(q)[1] = k.str[1]
        /\ Matching(nodes, q) = {}
        /\ Read(Get(Tire, q), nodes) = <<>>

\* C7: Put of the empty string panics and leaves the nodes, Len() and
\* Count() as they were.
C7_EmptyPutPanics ==
    [][(calls' = calls + 1 /\ last' = "PutEmpty")
          => (panicked' /\ UNCHANGED <<nodes, maxSortedLen, len, nNodes>>)]_vars

\* The empty string was put into an index that stores keywords.
C7_Witness == last = "PutEmpty" /\ panicked /\ len >= 2

\* C8: New(M) with M < 1 fails instead of returning an index.
C8_NewRejectsCapacity == maxSortedLen < 1 => panicked

\* C9: the list a query returned reads the same after any later Put calls.
C9_SnapshotIndependent == held.has => Read(held.r, nodes) = held.seen

\* A list Get returned is held while later Puts changed what the same query
\* returns.
C9_Witness ==
    /\ held.has
    /\ held.r.strs
    /\ held.seen # <<>>
    /\ Read(Get(Tire, held.q), nodes) # held.seen

\* C10: Count() is the number of nodes reachable from the root, 1 for a new
\* index, and no Put decreases it.
C10_CountIsNodes ==
    /\ [](nNodes = Cardinality(Subtree(nodes, Root)))
    /\ [](last = "New" => nNodes = 1)
    /\ [][nNodes' >= nNodes]_vars

\* A Put linked inner nodes besides the leaves of the keywords.
C10_Witness == ~panicked /\ len >= 2 /\ nNodes > len + 1

\* C11: after any sequence of Put, Delete, PopMin and PopMax the tree is the
\* map the calls describe: Get(k) returns the value last put for k with
\* ok = true when k is present and (nil, false) when it is not, Len() is the
\* number of present keys, a Put on a present key leaves Len unchanged and a
\* Delete of an absent key leaves the tree unchanged.
C11_RefinesMap ==
    /\ [](\A k \in RbKeys :
            rbGet(tree, k) =
                IF k \in refKeys(model)
                THEN [value |-> (CHOOSE e \in model : e.First = k).Second,
                      ok |-> TRUE]
                ELSE [value |-> nilValue, ok |-> FALSE])
    /\ [](rbLen(tree) = Cardinality(refKeys(model)))
    /\ [][(rbLast'.op = "Put" /\ rbLast'.present) =>
            rbLen(tree') = rbLen(tree)]_vars
    /\ [][(rbLast'.op = "Delete" /\ ~rbLast'.present) => tree' = tree]_vars

\* A Put on a present key of a tree that has lost keys and still holds three.
C11_Witness ==
    /\ rbLast.op = "Put"
    /\ rbLast.present
    /\ rbLen(tree) >= 3
    /\ \E k \in RbKeys : k < rbMax(tree).key /\ ~rbGet(tree, k).ok
    /\ \E k \in RbKeys : rbGet(tree, k) = [value |-> MaxRbValue, ok |-> TRUE]

\* C12: Keys() and RangeAll() return every present key once, in strictly
\* ascending order, Len() entries in all; Values() returns the values in the
\* order of their keys; RangeAllDesc() is RangeAll() reversed.
C12_OrderedTraversals ==
    LET keys == rbKeys(tree)
        values == rbValues(tree)
        all == rbRangeAll(tree)
        desc == rbRangeAllDesc(tree)
        n == rbLen(tree)
    IN  /\ ~keys.panic /\ ~values.panic /\ ~all.panic /\ ~desc.panic
        /\ Len(keys.out) = n /\ Len(all.out) = n
        /\ Len(values.out) = n /\ Len(desc.out) = n
        /\ {keys.out[i] : i \in 1..n} = refKeys(model)
        /\ \A i \in 1..n, j \in 1..n : i < j => keys.out[i] < keys.out[j]
        /\ \A i \in 1..n :
              /\ all.out[i].First = keys.out[i]
              /\ all.out[i] \in model
              /\ values.out[i] = all.out[i].Second
              /\ desc.out[i] = all.out[n + 1 - i]

\* Four keys with both values among them are left after a Delete.
C12_Witness ==
    /\ rbLast.op = "Delete"
    /\ rbLast.present
    /\ Len(rbRangeAllDesc(tree).out) = 4
    /\ {e.Second : e \in model} = RbValues

\* C13: Range(minKey, maxKey) returns the entries with
\* minKey <= key <= maxKey in ascending order, RangeDesc(minKey, maxKey) the
\* same entries in descending order; both return nothing when minKey > maxKey
\* or no key lies in the interval (no entry is in the interval then).
C13_RangeInclusive ==
    \A asc \in {refAsc(model)} :
        \A minKey \in RangeKeys, maxKey \in RangeKeys :
            \A in \in {SelectSeq(asc, LAMBDA e : /\ minKey <= e.First
                                                 /\ e.First <= maxKey)} :
                /\ rbRange(tree, minKey, maxKey) = in
                /\ rbRangeDesc(tree, minKey, maxKey) = Reverse(in)

\* The tree holds both ends of an interval and keys below, inside and above
\* it, and lacks keys so that another interval between its keys is empty.
C13_Witness ==
    /\ rbLast.op # "New"
    /\ Len(rbRange(tree, 2, 5)) >= 3
    /\ rbGet(tree, 2).ok /\ rbGet(tree, 5).ok
    /\ rbGet(tree, 1).ok /\ rbGet(tree, 6).ok
    /\ rbRangeDesc(tree, 3, 3) = <<>>

\* C14: RangeN(num, key) returns, in ascending order, the min(num, c)
\* smallest of the c entries whose key is >= key; RangeDescN(num, key)
\* returns, in descending order, the min(num, c') largest of the c' entries
\* whose key is <= key.
C14_RangeCount ==
    \A asc \in {refAsc(model)} :
        \A num \in RangeNums, key \in RangeKeys :
            /\ rbRangeN(tree, num, key) =
                   Take(SelectSeq(asc, LAMBDA e : e.First >= key), num)
            /\ rbRangeDescN(tree, num, key) =
                   Take(Reverse(SelectSeq(asc, LAMBDA e : e.First <= key)), num)

\* One query is cut short by num and another by the entries there are, the
\* key of the query being absent from the tree.
C14_Witness ==
    /\ rbLast.op # "New"
    /\ ~rbGet(tree, 3).ok
    /\ Len(rbRange(tree, 3, MaxRbKey)) = 3
    /\ Len(rbRangeN(tree, 2, 3)) = 2
    /\ Len(rbRangeN(tree, 5, 3)) = 3
    /\ Len(rbRangeDescN(tree, 1, 3)) = 1
    /\ Len(rbRangeDescN(tree, 4, 3)) = 2

\* C15: on a non-empty tree PopMin (PopMax) returns the entry Min (Max)
\* returns, which is the entry with the smallest (largest) key, removes that
\* entry and no other and decrements Len by 1; on an empty tree Min, Max,
\* PopMin and PopMax return (nil, nil) and the tree stays empty with Len 0.
C15_PopReturnsExtreme ==
    /\ [][(rbLast'.op = "PopMin" /\ rbEntries(tree) # {}) =>
            /\ Pair(rbLast'.key, rbLast'.value) = Pair(rbMin(tree).key,
                                                      rbMin(tree).value)
            /\ Pair(rbLast'.key, rbLast'.value) \in rbEntries(tree)
            /\ \A e \in rbEntries(tree) : rbLast'.key <= e.First
            /\ rbEntries(tree') =
                   rbEntries(tree) \ {Pair(rbLast'.key, rbLast'.value)}
            /\ rbLen(tree') = rbLen(tree) - 1]_vars
    /\ [][(rbLast'.op = "PopMax" /\ rbEntries(tree) # {}) =>
            /\ Pair(rbLast'.key, rbLast'.value) = Pair(rbMax(tree).key,
                                                      rbMax(tree).value)
            /\ Pair(rbLast'.key, rbLast'.value) \in rbEntries(tree)
            /\ \A e \in rbEntries(tree) : rbLast'.key >= e.First
            /\ rbEntries(tree') =
                   rbEntries(tree) \ {Pair(rbLast'.key, rbLast'.value)}
            /\ rbLen(tree') = rbLen(tree) - 1]_vars
    /\ [][(rbLast'.op \in {"PopMin", "PopMax"} /\ rbEntries(tree) = {}) =>
            /\ rbLast'.key = nilValue /\ rbLast'.value = nilValue
            /\ rbEntries(tree') = {} /\ rbLen(tree') = 0]_vars
    /\ [](rbEntries(tree) = {} =>
            /\ rbMin(tree) = [key |-> nilValue, value |-> nilValue]
            /\ rbMax(tree) = [key |-> nilValue, value |-> nilValue]
            /\ rbLen(tree) = 0)

\* PopMin took the smallest of at least four entries.
C15_Witness ==
    /\ rbLast.op = "PopMin"
    /\ rbLast.present
    /\ rbLast.value = MaxRbValue
    /\ rbLen(tree) >= 3
    /\ rbLast.key < rbMin(tree).key


\* C16: with capacity M >= 1, after every completed Put and for every node N,
\* the ascending snapshot of N's ordered map is the first min(M, |S_N|) of
\* the keywords S_N held at the nodes of N's subtree, ranked by weight
\* descending, then string ascending; every keyword of the map is held at a
\* node of the subtree.
C16_TopKPerNode ==
    (maxSortedLen >= 1 /\ ~panicked) =>
        \A n \in Subtree(nodes, Root) :
            /\ Keys(nodes, n).elems =
                   Take(Ranked(KeysUnder(nodes, n)), maxSortedLen)
            /\ \A i \in 1..Len(nodes[n].sorted) :
                   nodes[n].sorted[i] \in KeysUnder(nodes, n)

\* A node below the root has more keywords in its subtree than its map
\* keeps, on a chain of nodes a Put made for a shared prefix.
C16_Witness ==
    /\ maxSortedLen >= 1 /\ ~panicked
    /\ last = "PutNew"
    /\ \E n \in Subtree(nodes, Root) :
           /\ Len(n) >= 2
           /\ Cardinality(KeysUnder(nodes, n)) > maxSortedLen
           /\ Len(nodes[n].sorted) = maxSortedLen


\* C17: a Put that stores a new string s changes no query off its path: for
\* every q whose code points are not a prefix of those of s, Get(q) returns
\* after the Put what it returned before.
C17_PutFrame ==
    [][(calls' = calls + 1 /\ ~panicked') =>
          \A s \in StoredStrs(nodes') \ StoredStrs(nodes) :
              \A q \in Queries :
                  ~IsPrefix(Runes(q), Runes(s)) =>
                      Read(Get(Tire', q), nodes') = Read(Get(Tire, q), nodes)]_vars

\* A new string was stored in an index that answers queries off its path:
\* two stored keywords start with different code points.
C17_Witness ==
    /\ last = "PutNew" /\ ~panicked /\ maxSortedLen >= 1
    /\ len >= 3
    /\ \E k1 \in Stored(nodes), k2 \in Stored(nodes) :
           /\ k1.str[1] # k2.str[1]
           /\ Get(Tire, k1.Str).out.elems # <<>>
           /\ Get(Tire, k2.Str).out.elems # <<>>


\* The code points on the edges from the root to the node n.
RECURSIVE EdgePath(_, _)
EdgePath(ns, n) ==
    IF n = Root THEN <<>>
    ELSE LET p == CHOOSE x \in DOMAIN ns : \E r \in DOMAIN ns[x].next : ns[x].next[r] = n
             r == CHOOSE r \in DOMAIN ns[p].next : ns[p].next[r] = n
         IN  Append(EdgePath(ns, p), r)

\* C18: after any sequence of Put calls, a node at depth d that holds a
\* keyword k is reached from the root by the first d code points of k, so
\* d <= |k|.
C18_KeyOnItsPath ==
    \A n \in Subtree(nodes, Root) :
        nodes[n].key # NilKey =>
            /\ Len(EdgePath(nodes, n)) <= Len(nodes[n].key.str)
            /\ IsPrefix(EdgePath(nodes, n), nodes[n].key.str)

\* A keyword ends at an inner node two edges below the root while a longer
\* keyword is held at a leaf above the depth of its length.
C18_Witness ==
    /\ ~panicked
    /\ \E n \in Subtree(nodes, Root) :
           /\ nodes[n].key # NilKey
           /\ Len(EdgePath(nodes, n)) = 2
           /\ Len(nodes[n].key.str) = 2
           /\ DOMAIN nodes[n].next # {}
    /\ \E n \in Subtree(nodes, Root) :
           /\ nodes[n].key # NilKey
           /\ Len(EdgePath(nodes, n)) < Len(nodes[n].key.str)


\* The three states of a node below the root.
EmptyInternal(n) == n.key = NilKey /\ DOMAIN n.next # {}
Leaf(n) == n.key # NilKey /\ DOMAIN n.next = {}
KeyedInternal(n) == n.key # NilKey /\ DOMAIN n.next # {}

\* C19: after every completed Put the root holds no key and every other node
\* is Empty-internal, a Leaf or Keyed-internal: none has neither a key nor
\* children.
C19_NodeStates ==
    ~panicked =>
        /\ nodes[Root].key = NilKey
        /\ \A n \in Subtree(nodes, Root) \ {Root} :
               /\ EmptyInternal(nodes[n]) \/ Leaf(nodes[n]) \/ KeyedInternal(nodes[n])
               /\ ~(nodes[n].key = NilKey /\ DOMAIN nodes[n].next = {})

\* The three states are all present below the root.
C19_Witness ==
    /\ ~panicked /\ last = "PutNew"
    /\ \E n \in Subtree(nodes, Root) \ {Root} : EmptyInternal(nodes[n])
    /\ \E n \in Subtree(nodes, Root) \ {Root} : Leaf(nodes[n])
    /\ \E n \in Subtree(nodes, Root) \ {Root} : KeyedInternal(nodes[n])


\* C20: a node that holds a key and has children keeps that key through
\* every later Put.
C20_KeyedInternalKeepsKey ==
    [][\A n \in Subtree(nodes, Root) :
          KeyedInternal(nodes[n]) =>
              /\ n \in Subtree(nodes', Root)
              /\ nodes'[n].key = nodes[n].key]_vars

\* A node with a key has two children: it had its key and a child when a
\* later Put gave it the other child.
C20_Witness ==
    /\ ~panicked /\ last = "PutNew"
    /\ \E n \in Subtree(nodes, Root) :
           /\ nodes[n].key # NilKey
           /\ Cardinality(DOMAIN nodes[n].next) >= 2


\* C21 as stated: a node without a key that has children never gains a key.
C21_EmptyInternalNeverKeyed ==
    [][\A n \in Subtree(nodes, Root) \ {Root} :
          EmptyInternal(nodes[n]) => nodes'[n].key = NilKey]_vars

\* C21, amended: a node without a key that has children gains a key only
\* from a Put of a string not stored before whose code points are the path
\* from the root to the node (Case 1 of put); the node keeps its children,
\* and the root never gains a key.
C21_EmptyInternalKeyedByOwnPath ==
    [][/\ nodes'[Root].key = NilKey
       /\ \A n \in Subtree(nodes, Root) \ {Root} :
             (EmptyInternal(nodes[n]) /\ nodes'[n].key # NilKey) =>
                 /\ nodes'[n].key.str = EdgePath(nodes, n)
                 /\ nodes'[n].key \notin Stored(nodes)
                 /\ nodes'[n].next = nodes[n].next
                 /\ last' = "PutNew"]_vars

\* A keyword that ends at a node with two children is stored with two other
\* keywords after three Puts.
C21_Witness ==
    /\ ~panicked /\ last = "PutNew" /\ calls = 3 /\ len = 3
    /\ \E n \in Subtree(nodes, Root) \ {Root} :
           /\ KeyedInternal(nodes[n])
           /\ nodes[n].key.str = EdgePath(nodes, n)
           /\ Cardinality(DOMAIN nodes[n].next) = 2
           /\ \A r \in DOMAIN nodes[n].next : Leaf(nodes[nodes[n].next[r]])


\* C22: with capacity M >= 1, a Put of a non-empty string in any state that
\* Put calls reach returns without a run-time panic: where the walk uses up
\* the new keyword at a node that holds a keyword k2, k2 has more code
\* points than the walk has matched.
C22_PutCompletes ==
    [][(maxSortedLen >= 1 /\ calls' = calls + 1 /\ last' # "PutEmpty") =>
          ~panicked']_vars

\* The keywords of a top-K tree, in the order of its walk.
topKSeq(t) == rbKeys(t).out
topKSet(t) == {topKSeq(t)[i] : i \in 1..Len(topKSeq(t))}

\* C23: adjustSorted(k, M) on a top-K set S of at most M >= 1 elements leaves
\* S unchanged when S holds a keyword with the string of k; otherwise the
\* result is the first M elements of S with k in comparator order, that is S
\* with k less the lowest-ranked element when the size would exceed M.
C23_AdjustSortedTopK ==
    [][(rbLast'.op = "adjustSorted" /\ Len(topKSeq(tree)) <= maxSortedLen) =>
          LET k == rbLast'.key
          IN  IF \E o \in topKSet(tree) : o.Str = k.Str
              THEN topKSeq(tree') = topKSeq(tree)
              ELSE topKSeq(tree') =
                       Take(Ranked(topKSet(tree) \cup {k}), maxSortedLen)]_vars

\* C24: for two keywords with different strings and different weights, the
\* weights ranging over every machine integer, cmp(k1, k2) is negative
\* exactly when k1 has the larger weight, and cmp(k1, k2) and cmp(k2, k1)
\* have opposite signs.
C24_CmpOrdersByWeight ==
    LET k1 == rbLast.key
        k2 == rbLast.value
    IN  (rbLast.done /\ k1.Str # k2.Str /\ k1.Weight # k2.Weight) =>
            /\ (rbLast.out < 0) <=> (k1.Weight > k2.Weight)
            /\ (rbLast.out < 0) <=> (cmp(k2, k1) > 0)
            /\ (rbLast.out > 0) <=> (cmp(k2, k1) < 0)

\* C25: after every completed Put, every node below the root that has
\* children has at least two stored keywords in its subtree, and a subtree
\* below the root that holds exactly one keyword is a single leaf holding it.
C25_PathCompression ==
    ~panicked =>
        \A n \in Subtree(nodes, Root) \ {Root} :
            /\ DOMAIN nodes[n].next # {} =>
                   Cardinality(KeysUnder(nodes, n)) >= 2
            /\ Cardinality(KeysUnder(nodes, n)) = 1 =>
                   /\ Leaf(nodes[n])
                   /\ Subtree(nodes, n) = {n}

\* A leaf one edge below the root holds a keyword of three code points next
\* to a node with children and two keywords below it.
C25_Witness ==
    /\ ~panicked /\ last = "PutNew"
    /\ \E n \in Subtree(nodes, Root) \ {Root} :
           /\ Leaf(nodes[n])
           /\ Len(n) = 1
           /\ Len(nodes[n].key.str) = 3
    /\ \E n \in Subtree(nodes, Root) \ {Root} :
           /\ DOMAIN nodes[n].next # {}
           /\ Cardinality(KeysUnder(nodes, n)) = 2

\* C26: in every state and for every prefix q, Get(q) and GetKWs(q) have the
\* same length and Get(q)[i] is the Str of GetKWs(q)[i] for every i.
C26_GetMatchesGetKWs ==
    \A q \in Queries :
        LET g == Get(Tire, q)
            k == GetKWs(Tire, q)
            gs == Read(g, nodes)
            ks == Read(k, nodes)
        IN  /\ g.panic = k.panic
            /\ ~g.panic =>
                   /\ Len(gs) = Len(ks)
                   /\ \A i \in 1..Len(gs) : gs[i] = ks[i].Str

\* Some prefix has two results, fewer than the empty prefix has.
C26_Witness ==
    /\ ~panicked /\ maxSortedLen = 2
    /\ \E q \in Queries \ {<<>>} :
           /\ Len(Read(Get(Tire, q), nodes)) = 1
           /\ Len(Read(GetKWs(Tire, q), nodes)) = 1
           /\ Len(Read(GetKWs(Tire, <<>>), nodes)) = 2
           /\ Read(GetKWs(Tire, q), nodes)[1] # Read(GetKWs(Tire, <<>>), nodes)[1]

\* C28: a node with children that holds a keyword k lies at depth exactly
\* |k|; only a node without children may hold a keyword longer than its
\* depth.
C28_KeyedInternalDepth ==
    \A n \in Subtree(nodes, Root) :
        /\ KeyedInternal(nodes[n]) =>
               Len(nodes[n].key.str) = Len(EdgePath(nodes, n))
        /\ (nodes[n].key # NilKey
                /\ Len(nodes[n].key.str) > Len(EdgePath(nodes, n))) =>
               DOMAIN nodes[n].next = {}

\* A keyword of one code point sits at a node with children, a longer one at
\* a leaf right below that node.
C28_Witness ==
    /\ ~panicked
    /\ \E n \in Subtree(nodes, Root) :
           /\ KeyedInternal(nodes[n])
           /\ Len(nodes[n].key.str) = 1
           /\ \E r \in DOMAIN nodes[n].next :
                  /\ Leaf(nodes[nodes[n].next[r]])
                  /\ Len(nodes[nodes[n].next[r]].key.str) = 3

\* C27: Puts of pairs with pairwise distinct non-empty strings into a new
\* index leave the same Len(), the same Count() and the same Get(q) for
\* every prefix q in whatever order they are made: the state equals the one
\* the same pairs leave when put in one fixed order.
C27_OrderIndependent ==
    \E c \in {PutAll(New(maxSortedLen), model)} :
        /\ c.panic = panicked
        /\ ~panicked =>
               /\ TireLen(c) = TireLen(Tire)
               /\ Count(c) = Count(Tire)
               /\ \A q \in Queries :
                      Read(Get(c, q), c.nodes) = Read(Get(Tire, q), nodes)

\* The numbers of black nodes on the paths from n down to the sentinel.
RECURSIVE blackCounts(_, _)
blackCounts(t, n) ==
    IF n = NilPtr THEN {0}
    ELSE {c + (IF t.h[n].color = black THEN 1 ELSE 0) :
             c \in blackCounts(t, t.h[n].left) \cup blackCounts(t, t.h[n].right)}

\* C29: after every completed Put, Delete, PopMin or PopMax the tree is a
\* red-black tree: the keys are in binary-search order under cmp, the root
\* is black, no red node has a red child, every path from the root to the
\* sentinel has the same number of black nodes, and the tree has Len() nodes.
C29_RedBlackInvariants ==
    LET ns == treeNodes(tree, tree.root)
        h == tree.h
    IN  /\ \A n \in ns :
               /\ \A m \in treeNodes(tree, h[n].left) :
                      callCmp(tree.cmp, h[m].key, h[n].key) < 0
               /\ \A m \in treeNodes(tree, h[n].right) :
                      callCmp(tree.cmp, h[m].key, h[n].key) > 0
        /\ h[tree.root].color = black
        /\ h[NilPtr].color = black
        /\ \A n \in ns :
               h[n].color = red =>
                   h[h[n].left].color = black /\ h[h[n].right].color = black
        /\ Cardinality(blackCounts(tree, tree.root)) = 1
        /\ Cardinality(ns) = rbLen(tree)

\* A Delete took a key out of a full tree and left five nodes, red ones and
\* black ones below the root.
C29_Witness ==
    /\ rbLast.op = "Delete" /\ rbLast.present
    /\ rbLen(tree) = MaxRbKey - 1
    /\ \E n \in treeNodes(tree, tree.root) : tree.h[n].color = red
    /\ \E n \in treeNodes(tree, tree.root) \ {tree.root} : tree.h[n].color = black

\* C30: two RbTree instances share the sentinel nilNode of the package.  After
\* any interleaving of whole calls of Put, Delete, PopMin, PopMax, Get, Min
\* and Max, each tree has the nodes, the contents and the length it has when
\* it gets its own calls alone on a sentinel of its own, every call returned
\* what it returns there, and of the sentinel only the parent pointer ever
\* changed.
C30_SharedSentinelIsolated ==
    /\ rbLast.got = rbLast.want
    /\ [tree.h[NilPtr] EXCEPT !.parent = GoNil] = nilNode
    /\ \A i \in ShTrees :
           LET t == shTree(tree, i)
               s == model[i]
           IN  /\ rbLen(t) = rbLen(s)
               /\ t.root = s.root
               /\ \A p \in treeNodes(s, s.root) : p \in DOMAIN t.h /\ t.h[p] = s.h[p]
               /\ rbRangeAll(t) = rbRangeAll(s)

\* A PopMin of one tree returned a pair while the parent pointer of the
\* shared sentinel still named a node of the other tree, and three or more
\* nodes are left in either tree.
C30_Witness ==
    /\ rbLast.op \in {"PopMin", "Delete"}
    /\ \E i \in ShTrees :
           /\ rbLast.tree = i
           /\ tree.trees[i].len >= 2
           /\ \E j \in ShTrees \ {i} :
                  /\ tree.trees[j].len >= 3
                  /\ tree.h[NilPtr].parent \in treeNodes(shTree(tree, j), tree.trees[j].root)

\* The node of the tree with the largest key below that of n, and the one
\* with the smallest key above it; the sentinel when there is none.
nodeBelow(t, n) ==
    LET c == {m \in treeNodes(t, t.root) : callCmp(t.cmp, t.h[m].key, t.h[n].key) < 0}
    IN  IF c = {} THEN NilPtr
        ELSE CHOOSE m \in c : \A o \in c : callCmp(t.cmp, t.h[o].key, t.h[m].key) <= 0

nodeAbove(t, n) ==
    LET c == {m \in treeNodes(t, t.root) : callCmp(t.cmp, t.h[m].key, t.h[n].key) > 0}
    IN  IF c = {} THEN NilPtr
        ELSE CHOOSE m \in c : \A o \in c : callCmp(t.cmp, t.h[o].key, t.h[m].key) >= 0

\* C31: for every node n of the tree, predecessor(n) is the node with the
\* largest key strictly smaller than the key of n, the sentinel when n holds
\* the minimum, and successor(n) is the node with the smallest key strictly
\* larger, the sentinel when n holds the maximum.
C31_PredecessorSuccessor ==
    \A n \in treeNodes(tree, tree.root) :
        /\ predecessor(tree, n) = nodeBelow(tree, n)
        /\ successor(tree, n) = nodeAbove(tree, n)

=============================================================================
